---- MODULE Spec2Model ----
(***************************************************************************)
(* Incident lifecycle of the network incident system: the stored incident  *)
(* rows, the derived fields stamped by BaseIncident.save, the archival     *)
(* eligibility rule, archive / restore, the web operations that call them  *)
(* (create, edit, manual archive, restore, bulk archive) and the periodic  *)
(* archival sweep.  Times are seconds on one clock.                        *)
(***************************************************************************)
EXTENDS Integers, Sequences, FiniteSets, TLC

(***************************************************************************)
(* Bounds of the model.                                                    *)
(***************************************************************************)
MaxIncidents == 2
MaxBulk == 2

(***************************************************************************)
(* Program constants (seconds).                                            *)
(***************************************************************************)
ArchiveCooldown == 7200
MaxFutureSeconds == 3600
MaxPastSeconds == 31536000
MaxRecoverySeconds == 2592000

(***************************************************************************)
(* Nullable values: Null, or Some(v).                                      *)
(***************************************************************************)
Null == <<>>
Some(v) == <<v>>
Val(o) == o[1]

(***************************************************************************)
(* Clock readings at which operations run, relative to a reference T = 0.  *)
(* At 7260 a recovery at 0 is 121 minutes old and a recovery at 120 is     *)
(* 119 minutes old.                                                        *)
(***************************************************************************)
Instants == {0, 120, 7260}

(***************************************************************************)
(* Users: request.user of the web operations, and the sweep's system user. *)
(***************************************************************************)
SystemUser == "system_archival"
WebUsers == {"admin"}
is_admin(u) == u \in {"admin", SystemUser}

NetworkOrder == <<"transport", "file_access", "radio_access", "core", "backbone_internet">>
Networks == {NetworkOrder[k] : k \in 1..Len(NetworkOrder)}

(***************************************************************************)
(* Text is a sequence of characters; " " is whitespace.                    *)
(***************************************************************************)
RECURSIVE LStrip(_)
LStrip(s) == IF s = <<>> THEN <<>>
             ELSE IF Head(s) = " " THEN LStrip(Tail(s)) ELSE s

RECURSIVE RStrip(_)
RStrip(s) == IF s = <<>> THEN <<>>
             ELSE IF s[Len(s)] = " " THEN RStrip(SubSeq(s, 1, Len(s) - 1)) ELSE s

strip(s) == RStrip(LStrip(s))

\* Texts a form field can be posted with.
FormTexts == {<<" ">>, <<" ", "x">>}

\* forms.CharField.to_python for a nullable model CharField: strip, and the
\* empty string becomes None.
CleanChar(raw) == IF strip(raw) = <<>> THEN Null ELSE Some(strip(raw))

\* Python's truthiness of an optional string: None and "" are falsy.
Truthy(t) == t # Null /\ Val(t) # <<>>

\* int(x / 60) of Python: truncation toward zero.
TruncDiv(a, b) == IF a >= 0 THEN a \div b ELSE -((-a) \div b)

\* db: the stored incident rows, indexed by id.  now: the clock.
\* lastOp: the last archive, restore, bulk archive or sweep request and what
\* it answered.  report: the summary returned by the sweep that just ended.
\* sweepers: the runs of the sweep task in progress.  editor: the edit
\* request in progress (the instance it has read), or Null.  saved_searches:
\* the rows of SavedSearch.  requests: the save-search and set-default
\* requests in progress, each with the statement it has reached.
VARIABLES db, now, lastOp, report, sweepers, editor, saved_searches, requests

vars == <<db, now, lastOp, report, sweepers, editor, saved_searches, requests>>

Ids == 1..Len(db)

(***************************************************************************)
(* BaseIncident.save with no update_fields: derived fields, then every     *)
(* column is written; updated_at is auto_now.                              *)
(***************************************************************************)
calculate_duration(inc, t) ==
    LET end_time == IF inc.date_time_recovery # Null
                    THEN Val(inc.date_time_recovery) ELSE t
    IN  [inc EXCEPT !.duration_minutes =
            TruncDiv(end_time - inc.date_time_incident, 60)]

\* update_resolution_status that sets the flag but never clears it.
update_resolution_status_Sticky(inc) ==
    [inc EXCEPT !.is_resolved = (inc.is_resolved \/ inc.date_time_recovery # Null)]

update_resolution_status(inc) ==
    [inc EXCEPT !.is_resolved = (inc.date_time_recovery # Null)]

\* save that leaves out the call of update_resolution_status.
save_NoResolutionStatus(inc, t) ==
    [calculate_duration(inc, t) EXCEPT !.updated_at = t]

save(inc, t) ==
    [update_resolution_status(calculate_duration(inc, t))
        EXCEPT !.updated_at = t]

\* The columns written by save(update_fields=[...]) of archive and restore.
LifecycleColumns == {"is_archived", "archived_at", "archived_by", "updated_by", "updated_at"}

\* The stored row after instance inc is saved with update_fields: only the
\* listed columns are taken from the instance.
save_update_fields(row, inc, t) ==
    [f \in DOMAIN row |->
        IF f = "updated_at" THEN t
        ELSE IF f \in LifecycleColumns THEN inc[f] ELSE row[f]]

(***************************************************************************)
(* BaseIncident.can_be_archived                                            *)
(***************************************************************************)
\* can_be_archived with the cooldown comparison off by one.
can_be_archived_OffByOne(inc, t) ==
    IF inc.date_time_recovery = Null THEN FALSE
    ELSE IF ~Truthy(inc.cause) \/ strip(Val(inc.cause)) = <<>> THEN FALSE
    ELSE IF ~Truthy(inc.origin) \/ strip(Val(inc.origin)) = <<>> THEN FALSE
    ELSE IF inc.is_archived THEN FALSE
    ELSE IF t - Val(inc.date_time_recovery) <= ArchiveCooldown THEN FALSE
    ELSE TRUE

\* can_be_archived that checks the cause twice and never the origin.
can_be_archived_SkipsOrigin(inc, t) ==
    IF inc.date_time_recovery = Null THEN FALSE
    ELSE IF ~Truthy(inc.cause) \/ strip(Val(inc.cause)) = <<>> THEN FALSE
    ELSE IF ~Truthy(inc.cause) \/ strip(Val(inc.cause)) = <<>> THEN FALSE
    ELSE IF inc.is_archived THEN FALSE
    ELSE IF t - Val(inc.date_time_recovery) < ArchiveCooldown THEN FALSE
    ELSE TRUE
can_be_archived(inc, t) ==
    IF inc.date_time_recovery = Null THEN FALSE
    ELSE IF ~Truthy(inc.cause) \/ strip(Val(inc.cause)) = <<>> THEN FALSE
    ELSE IF ~Truthy(inc.origin) \/ strip(Val(inc.origin)) = <<>> THEN FALSE
    ELSE IF inc.is_archived THEN FALSE
    ELSE IF t - Val(inc.date_time_recovery) < ArchiveCooldown THEN FALSE
    ELSE TRUE

(***************************************************************************)
(* BaseIncident.archive on instance inc whose stored row is row.           *)
(* Outcome "ValueError": raised, nothing assigned.  Outcome "True": the    *)
(* four fields assigned and the row written.  Outcome "False": the write   *)
(* raised (writeFails) and was swallowed; the row is not written.          *)
(***************************************************************************)
\* archive that stamps the audit fields but leaves is_archived as it was.
archive_NoFlag(row, inc, user, t, writeFails) ==
    IF ~can_be_archived(inc, t)
    THEN [outcome |-> "ValueError", row |-> row]
    ELSE LET m == [inc EXCEPT !.archived_at = Some(t),
                              !.archived_by = Some(user),
                              !.updated_by = Some(user)]
         IN  IF writeFails
             THEN [outcome |-> "False", row |-> row]
             ELSE [outcome |-> "True", row |-> save_update_fields(row, m, t)]

\* archive that does not record the actor as updated_by.
archive_NoUpdatedBy(row, inc, user, t, writeFails) ==
    IF ~can_be_archived(inc, t)
    THEN [outcome |-> "ValueError", row |-> row]
    ELSE LET m == [inc EXCEPT !.is_archived = TRUE,
                              !.archived_at = Some(t),
                              !.archived_by = Some(user)]
         IN  IF writeFails
             THEN [outcome |-> "False", row |-> row]
             ELSE [outcome |-> "True", row |-> save_update_fields(row, m, t)]

\* archive without its eligibility guard.
archive_NoGuard(row, inc, user, t, writeFails) ==
    LET m == [inc EXCEPT !.is_archived = TRUE,
                         !.archived_at = Some(t),
                         !.archived_by = Some(user),
                         !.updated_by = Some(user)]
    IN  IF writeFails
        THEN [outcome |-> "False", row |-> row]
        ELSE [outcome |-> "True", row |-> save_update_fields(row, m, t)]

archive(row, inc, user, t, writeFails) ==
    IF ~can_be_archived(inc, t)
    THEN [outcome |-> "ValueError", row |-> row]
    ELSE LET m == [inc EXCEPT !.is_archived = TRUE,
                              !.archived_at = Some(t),
                              !.archived_by = Some(user),
                              !.updated_by = Some(user)]
         IN  IF writeFails
             THEN [outcome |-> "False", row |-> row]
             ELSE [outcome |-> "True", row |-> save_update_fields(row, m, t)]

(***************************************************************************)
(* BaseIncident.restore                                                    *)
(***************************************************************************)
\* restore that forgets to clear archived_by.
restore_KeepsArchivedBy(row, inc, user, t) ==
    IF ~inc.is_archived
    THEN [outcome |-> "False", row |-> row]
    ELSE LET m == [inc EXCEPT !.is_archived = FALSE,
                              !.archived_at = Null,
                              !.updated_by = Some(user)]
         IN  [outcome |-> "True", row |-> save_update_fields(row, m, t)]

\* restore that forgets to clear archived_at.
restore_KeepsArchivedAt(row, inc, user, t) ==
    IF ~inc.is_archived
    THEN [outcome |-> "False", row |-> row]
    ELSE LET m == [inc EXCEPT !.is_archived = FALSE,
                              !.archived_by = Null,
                              !.updated_by = Some(user)]
         IN  [outcome |-> "True", row |-> save_update_fields(row, m, t)]
restore(row, inc, user, t) ==
    IF ~inc.is_archived
    THEN [outcome |-> "False", row |-> row]
    ELSE LET m == [inc EXCEPT !.is_archived = FALSE,
                              !.archived_at = Null,
                              !.archived_by = Null,
                              !.updated_by = Some(user)]
         IN  [outcome |-> "True", row |-> save_update_fields(row, m, t)]

(***************************************************************************)
(* BaseIncident.get_severity_class and get_severity_display at clock       *)
(* reading t.  hours = age.total_seconds() / 3600, so hours < n is         *)
(* age < n * 3600 in seconds.  An instance that has been given no incident *)
(* time has no date_time_incident field.                                   *)
(***************************************************************************)
SecondsPerHour == 3600

\* get_severity_class with the first threshold inclusive.
get_severity_class_Inclusive(inc, t) ==
    IF inc.is_resolved THEN "incident-resolved"
    ELSE IF "date_time_incident" \notin DOMAIN inc THEN "incident-new"
    ELSE LET age == t - inc.date_time_incident
         IN  IF age <= 1 * SecondsPerHour THEN "incident-new"
             ELSE IF age < 2 * SecondsPerHour THEN "incident-low"
             ELSE IF age < 4 * SecondsPerHour THEN "incident-medium"
             ELSE "incident-critical"

\* get_severity_class reading age.seconds (the seconds within the day) in
\* place of age.total_seconds().
get_severity_class_SecondsOfDay(inc, t) ==
    IF inc.is_resolved THEN "incident-resolved"
    ELSE IF "date_time_incident" \notin DOMAIN inc THEN "incident-new"
    ELSE LET age == (t - inc.date_time_incident) % 86400
         IN  IF age < 1 * SecondsPerHour THEN "incident-new"
             ELSE IF age < 2 * SecondsPerHour THEN "incident-low"
             ELSE IF age < 4 * SecondsPerHour THEN "incident-medium"
             ELSE "incident-critical"

get_severity_class(inc, t) ==
    IF inc.is_resolved THEN "incident-resolved"
    ELSE IF "date_time_incident" \notin DOMAIN inc THEN "incident-new"
    ELSE LET age == t - inc.date_time_incident
         IN  IF age < 1 * SecondsPerHour THEN "incident-new"
             ELSE IF age < 2 * SecondsPerHour THEN "incident-low"
             ELSE IF age < 4 * SecondsPerHour THEN "incident-medium"
             ELSE "incident-critical"

get_severity_display(inc, t) ==
    IF inc.is_resolved THEN "Resolved"
    ELSE IF "date_time_incident" \notin DOMAIN inc THEN "New"
    ELSE LET age == t - inc.date_time_incident
         IN  IF age < 1 * SecondsPerHour THEN "New"
             ELSE IF age < 2 * SecondsPerHour THEN "Low Severity"
             ELSE IF age < 4 * SecondsPerHour THEN "Medium Severity"
             ELSE "Critical"

(***************************************************************************)
(* IncidentSearchService._apply_status_filter: whether a stored row passes *)
(* the filter of a status at clock reading t.  __gte and __lte are both    *)
(* inclusive.                                                              *)
(***************************************************************************)
_apply_status_filter(row, status, t) ==
    LET one_hour_ago == t - 1 * SecondsPerHour
        two_hours_ago == t - 2 * SecondsPerHour
        four_hours_ago == t - 4 * SecondsPerHour
    IN  IF status = "active" THEN row.date_time_recovery = Null
        ELSE IF status = "resolved" THEN row.date_time_recovery # Null
        ELSE IF status = "new"
        THEN /\ row.date_time_recovery = Null
             /\ row.date_time_incident >= one_hour_ago
        ELSE IF status = "low"
        THEN /\ row.date_time_recovery = Null
             /\ row.date_time_incident <= one_hour_ago
             /\ row.date_time_incident >= two_hours_ago
        ELSE IF status = "medium"
        THEN /\ row.date_time_recovery = Null
             /\ row.date_time_incident <= two_hours_ago
             /\ row.date_time_incident >= four_hours_ago
        ELSE IF status = "critical"
        THEN /\ row.date_time_recovery = Null
             /\ row.date_time_incident <= four_hours_ago
        ELSE TRUE

(***************************************************************************)
(* Model instances and form validation.                                    *)
(***************************************************************************)
\* A new model instance populated from a valid form (field defaults of
\* BaseIncident for everything the form does not carry).
NewIncident(net, user, inc_t, rec, cause, origin) ==
    [network            |-> net,
     date_time_incident |-> inc_t,
     date_time_recovery |-> rec,
     duration_minutes   |-> 0,
     cause              |-> cause,
     origin             |-> origin,
     is_resolved        |-> FALSE,
     is_archived        |-> FALSE,
     archived_at        |-> Null,
     archived_by        |-> Null,
     created_by         |-> Some(user),
     updated_by         |-> Some(user),
     updated_at         |-> 0]

\* BaseIncidentForm.clean_date_time_incident
clean_date_time_incident(inc_t, t) ==
    /\ ~(inc_t > t + MaxFutureSeconds)
    /\ ~(inc_t < t - MaxPastSeconds)

\* BaseIncidentForm.clean_date_time_recovery
clean_date_time_recovery(rec, t) ==
    rec # Null => ~(Val(rec) > t)

\* BaseIncidentForm.clean
clean(inc_t, rec) ==
    rec # Null =>
        /\ ~(Val(rec) <= inc_t)
        /\ ~(Val(rec) > inc_t + MaxRecoverySeconds)

is_valid(inc_t, rec, t) ==
    /\ clean_date_time_incident(inc_t, t)
    /\ clean_date_time_recovery(rec, t)
    /\ clean(inc_t, rec)

\* Values the two datetime fields can be posted with.
IncidentTimeInputs == {-1800}
RecoveryInputs == {Null, Some(0), Some(120)}
\* Network types incidents are logged on: the first incident on transport,
\* a later one on transport or core.
AddNetworks == {"transport", "core"}
AddNetworksFor(id) == IF id = 1 THEN {"transport"} ELSE AddNetworks

Op(op, id, actor, outcome) ==
    [op |-> op, id |-> id, actor |-> actor, outcome |-> outcome,
     archived_count |-> 0, failed_incidents |-> <<>>]

\* lastOp after a step that is no archive, restore, bulk archive or sweep.
NoOp == Op("", 0, "", "")

EmptyReport ==
    [total_checked |-> 0, total_archived |-> 0,
     by_network_type |-> <<>>, errors |-> <<>>]

SweeperIds == 1..2

\* Saved-search requests in progress: at most two at a time.
RequestIds == 1..2

IdleRequest ==
    [pc |-> "idle", network_type |-> "", name |-> "", set_as_default |-> FALSE,
     saved_search |-> 0]

IdleSweeper ==
    [pc |-> "idle", runs |-> 0, k |-> 0, queue |-> <<>>,
     results |-> EmptyReport, network_checked |-> 0,
     network_archived |-> 0, network_errors |-> <<>>]

Init ==
    /\ db = <<>>
    /\ now = 0
    /\ lastOp = NoOp
    /\ report = EmptyReport
    /\ sweepers = [s \in SweeperIds |-> IdleSweeper]
    /\ editor = Null
    /\ saved_searches = <<>>
    /\ requests = [r \in RequestIds |-> IdleRequest]

(***************************************************************************)
(* The clock moves to a later reading.                                     *)
(***************************************************************************)
Tick ==
    /\ \E t \in Instants : t > now /\ now' = t
    /\ lastOp' = NoOp
    /\ report' = EmptyReport
    /\ UNCHANGED <<db, sweepers, editor, saved_searches, requests>>

(***************************************************************************)
(* add_incident_view, POST with a valid form.                              *)
(***************************************************************************)
AddIncident(user, net, inc_t, rec, cause_raw, origin_raw) ==
    /\ Len(db) < MaxIncidents
    /\ is_valid(inc_t, rec, now)
    /\ LET incident == NewIncident(net, user, inc_t, rec,
                                   CleanChar(cause_raw), CleanChar(origin_raw))
       IN  db' = Append(db, save(incident, now))
    /\ lastOp' = NoOp
    /\ report' = EmptyReport
    /\ UNCHANGED <<now, sweepers, editor, saved_searches, requests>>

(***************************************************************************)
(* edit_incident_view, POST: the instance is read, the form fields are     *)
(* assigned to it and it is saved whole.                                   *)
(***************************************************************************)
ApplyForm(inc, user, inc_t, rec, cause_raw, origin_raw) ==
    [inc EXCEPT !.date_time_incident = inc_t,
                !.date_time_recovery = rec,
                !.cause = CleanChar(cause_raw),
                !.origin = CleanChar(origin_raw),
                !.updated_by = Some(user)]

EditIncident(user, i, inc_t, rec, cause_raw, origin_raw) ==
    /\ i \in Ids
    /\ is_admin(user) \/ db[i].created_by = Some(user)
    /\ is_valid(inc_t, rec, now)
    /\ db' = [db EXCEPT ![i] =
                save(ApplyForm(db[i], user, inc_t, rec, cause_raw, origin_raw), now)]
    /\ lastOp' = NoOp
    /\ report' = EmptyReport
    /\ UNCHANGED <<now, sweepers, editor, saved_searches, requests>>

(***************************************************************************)
(* archive_incident_manual                                                 *)
(***************************************************************************)
ArchiveIncidentManual(user, i) ==
    /\ i \in Ids
    /\ is_admin(user)
    /\ IF ~can_be_archived(db[i], now)
       THEN /\ lastOp' = Op("archive", i, user, "400")
            /\ UNCHANGED db
       ELSE LET r == archive(db[i], db[i], user, now, FALSE)
            IN  /\ db' = [db EXCEPT ![i] = r.row]
                /\ lastOp' = Op("archive", i, user, r.outcome)
    /\ report' = EmptyReport
    /\ UNCHANGED <<now, sweepers, editor, saved_searches, requests>>

(***************************************************************************)
(* restore_archived_incident                                               *)
(***************************************************************************)
RestoreArchivedIncident(user, i) ==
    /\ i \in Ids
    /\ is_admin(user)
    /\ IF ~db[i].is_archived
       THEN /\ lastOp' = Op("restore", i, user, "not archived")
            /\ UNCHANGED db
       ELSE LET r == restore(db[i], db[i], user, now)
            IN  /\ db' = [db EXCEPT ![i] = r.row]
                /\ lastOp' = Op("restore", i, user, r.outcome)
    /\ report' = EmptyReport
    /\ UNCHANGED <<now, sweepers, editor, saved_searches, requests>>

(***************************************************************************)
(* bulk_archive_incidents: the loop over the requested ids.  Only          *)
(* DoesNotExist is caught inside the loop; the ValueError of archive       *)
(* leaves the loop and the view answers 500, keeping the rows already      *)
(* written.                                                                *)
(***************************************************************************)
RECURSIVE BulkLoop(_, _, _, _, _, _, _)
BulkLoop(ids, d, net, user, t, archived_count, failed_incidents) ==
    IF ids = <<>>
    THEN [db |-> d, status |-> "200", raised_at |-> 0,
          archived_count |-> archived_count, failed_incidents |-> failed_incidents]
    ELSE LET i == Head(ids)
         IN  IF ~(i \in 1..Len(d) /\ d[i].network = net)
             THEN BulkLoop(Tail(ids), d, net, user, t,
                           archived_count, Append(failed_incidents, i))
             ELSE IF d[i].date_time_recovery = Null
             THEN BulkLoop(Tail(ids), d, net, user, t,
                           archived_count, Append(failed_incidents, i))
             ELSE LET r == archive(d[i], d[i], user, t, FALSE)
                  IN  IF r.outcome = "ValueError"
                      THEN [db |-> d, status |-> "500", raised_at |-> i,
                            archived_count |-> archived_count,
                            failed_incidents |-> failed_incidents]
                      ELSE IF r.outcome = "True"
                      THEN BulkLoop(Tail(ids), [d EXCEPT ![i] = r.row], net, user, t,
                                    archived_count + 1, failed_incidents)
                      ELSE BulkLoop(Tail(ids), d, net, user, t,
                                    archived_count, Append(failed_incidents, i))

\* The id lists a bulk request can carry.
BulkRequests ==
    UNION {[1..n -> 1..MaxIncidents] : n \in 1..MaxBulk}

BulkArchiveIncidents(user, net, ids) ==
    /\ is_admin(user)
    /\ LET r == BulkLoop(ids, db, net, user, now, 0, <<>>)
       IN  /\ db' = r.db
           /\ lastOp' = [op |-> "bulk", id |-> r.raised_at, actor |-> user,
                         outcome |-> r.status,
                         archived_count |-> r.archived_count,
                         failed_incidents |-> r.failed_incidents]
    /\ report' = EmptyReport
    /\ UNCHANGED <<now, sweepers, editor, saved_searches, requests>>

(***************************************************************************)
(* auto_archive_eligible_incidents                                         *)
(***************************************************************************)
\* The filter(...).exclude(...) of the sweep.
\* The pre-filter with is_resolved mistyped.
PreFilter_Unresolved(row) ==
    /\ row.is_resolved = FALSE
    /\ row.is_archived = FALSE
    /\ row.date_time_recovery # Null
    /\ ~(\/ row.cause = Null
         \/ row.cause = Some(<<>>)
         \/ row.origin = Null
         \/ row.origin = Some(<<>>))

PreFilter(row) ==
    /\ row.is_resolved = TRUE
    /\ row.is_archived = FALSE
    /\ row.date_time_recovery # Null
    /\ ~(\/ row.cause = Null
         \/ row.cause = Some(<<>>)
         \/ row.origin = Null
         \/ row.origin = Some(<<>>))

\* Meta.ordering = ['-date_time_incident'] (ties by id).
Before(d, i, j) ==
    \/ d[i].date_time_incident > d[j].date_time_incident
    \/ d[i].date_time_incident = d[j].date_time_incident /\ i < j

RECURSIVE Ordered(_, _)
Ordered(d, S) ==
    IF S = {} THEN <<>>
    ELSE LET first == CHOOSE i \in S : \A j \in S \ {i} : Before(d, i, j)
         IN  <<first>> \o Ordered(d, S \ {first})

\* The evaluated queryset of one network: the instances as read.
EligibleIncidents(d, net) ==
    LET S == {i \in 1..Len(d) : d[i].network = net /\ PreFilter(d[i])}
        ord == Ordered(d, S)
    IN  [k \in 1..Len(ord) |-> [id |-> ord[k], incident |-> d[ord[k]]]]

\* Lines 89-102: one incident of the loop.  acc carries results,
\* network_archived and network_errors.
SweepIncident(d, acc, item, t, writeFails) ==
    IF can_be_archived(item.incident, t)
    THEN LET r == archive(d[item.id], item.incident, SystemUser, t, writeFails)
         IN  IF r.outcome = "True"
             THEN [db |-> [d EXCEPT ![item.id] = r.row],
                   acc |-> [acc EXCEPT !.network_archived = @ + 1,
                                       !.results.total_archived = @ + 1]]
             ELSE IF r.outcome = "False"
             THEN [db |-> d,
                   acc |-> [acc EXCEPT !.network_errors =
                               Append(@, [msg |-> "Failed to archive", id |-> item.id])]]
             ELSE [db |-> d,
                   acc |-> [acc EXCEPT
                       !.network_errors =
                           Append(@, [msg |-> "Error archiving", id |-> item.id]),
                       !.results.errors =
                           Append(@, [msg |-> "Error archiving", id |-> item.id])]]
    ELSE [db |-> d, acc |-> acc]

\* The loop leaving at the first incident whose archival fails.
RECURSIVE SweepLoop_StopsAtFailure(_, _, _, _, _)
SweepLoop_StopsAtFailure(queue, d, acc, t, failIds) ==
    IF queue = <<>> THEN [db |-> d, acc |-> acc]
    ELSE LET r == SweepIncident(d, acc, Head(queue), t, Head(queue).id \in failIds)
         IN  IF Len(r.acc.network_errors) > Len(acc.network_errors)
             THEN r
             ELSE SweepLoop_StopsAtFailure(Tail(queue), r.db, r.acc, t, failIds)
RECURSIVE SweepLoop(_, _, _, _, _)
SweepLoop(queue, d, acc, t, failIds) ==
    IF queue = <<>> THEN [db |-> d, acc |-> acc]
    ELSE LET r == SweepIncident(d, acc, Head(queue), t, Head(queue).id \in failIds)
         IN  SweepLoop(Tail(queue), r.db, r.acc, t, failIds)

\* Lines 69-109: one network type.
SweepNetwork(d, results, net, t, failIds) ==
    LET queue == EligibleIncidents(d, net)
        acc0 == [results |-> [results EXCEPT !.total_checked = @ + Len(queue)],
                 network_archived |-> 0,
                 network_errors |-> <<>>]
        r == SweepLoop(queue, d, acc0, t, failIds)
    IN  [db |-> r.db,
         results |-> [r.acc.results EXCEPT !.by_network_type =
                        Append(@, [network |-> net,
                                   checked |-> Len(queue),
                                   archived |-> r.acc.network_archived,
                                   errors |-> r.acc.network_errors])]]

\* The task visiting the first network type only.
SweepNetworks_FirstOnly(k, d, results, t, failIds) ==
    IF k > 1 THEN [db |-> d, results |-> results]
    ELSE LET r == SweepNetwork(d, results, NetworkOrder[k], t, failIds)
         IN  [db |-> r.db, results |-> r.results]
RECURSIVE SweepNetworks(_, _, _, _, _)
SweepNetworks(k, d, results, t, failIds) ==
    IF k > Len(NetworkOrder) THEN [db |-> d, results |-> results]
    ELSE LET r == SweepNetwork(d, results, NetworkOrder[k], t, failIds)
         IN  SweepNetworks(k + 1, r.db, r.results, t, failIds)

\* One whole run of the task; failIds are the incidents whose write raises.
AutoArchiveEligibleIncidents(failIds) ==
    /\ LET r == SweepNetworks(1, db, EmptyReport, now, failIds)
       IN  /\ db' = r.db
           /\ report' = r.results
    /\ lastOp' = Op("sweep", 0, SystemUser,
                    IF failIds = {} THEN "ok" ELSE "storage errors")
    /\ UNCHANGED <<now, sweepers, editor, saved_searches, requests>>

(***************************************************************************)
(* The same task run by workers that interleave with each other and with   *)
(* web requests.  A run touches the store when it evaluates the queryset   *)
(* of a network type (count and rows) and when archive writes a row; the   *)
(* eligibility checks read the instance held in memory and the clock.      *)
(***************************************************************************)
MaxRuns == 1
MaxConcIncidents == 1

\* Lines 50-56: a run starts with empty results.
SweepBegin(s) ==
    /\ sweepers[s].pc = "idle"
    /\ sweepers[s].runs < MaxRuns
    /\ sweepers' = [sweepers EXCEPT ![s] =
            [IdleSweeper EXCEPT !.pc = "query", !.runs = sweepers[s].runs + 1,
                                !.k = 1]]
    /\ UNCHANGED <<db, now, lastOp, report, editor, saved_searches, requests>>

\* Lines 104-109 and 120-123, which touch only the run's own results: the
\* network type's results are stored, and after the last network type the
\* run returns.  Taken together with the store access that precedes them.
StoreResults(w) ==
    LET results == [w.results EXCEPT !.by_network_type =
                       Append(@, [network |-> NetworkOrder[w.k],
                                  checked |-> w.network_checked,
                                  archived |-> w.network_archived,
                                  errors |-> w.network_errors])]
    IN  IF w.k = Len(NetworkOrder)
        THEN [w EXCEPT !.pc = "idle", !.results = results]
        ELSE [w EXCEPT !.pc = "query", !.k = @ + 1, !.results = results]

AfterAccess(w) == IF w.queue = <<>> THEN StoreResults(w) ELSE w

Returned(s) == sweepers[s].pc # "idle" /\ sweepers'[s].pc = "idle"

\* Lines 69-85: the queryset of network type k is evaluated.
SweepQuery(s) ==
    /\ sweepers[s].pc = "query"
    /\ LET queue == EligibleIncidents(db, NetworkOrder[sweepers[s].k])
       IN  sweepers' = [sweepers EXCEPT ![s] =
               AfterAccess([@ EXCEPT !.pc = "loop",
                                     !.queue = queue,
                                     !.network_checked = Len(queue),
                                     !.network_archived = 0,
                                     !.network_errors = <<>>,
                                     !.results.total_checked = @ + Len(queue)])]
    /\ IF Returned(s)
       THEN report' = sweepers'[s].results /\ lastOp' = Op("sweep", 0, SystemUser, "ok")
       ELSE UNCHANGED <<report, lastOp>>
    /\ UNCHANGED <<db, now, editor, saved_searches, requests>>

\* Lines 88-102: the next instance of the queryset.
SweepStep(s) ==
    /\ sweepers[s].pc = "loop"
    /\ LET acc == [results |-> sweepers[s].results,
                   network_archived |-> sweepers[s].network_archived,
                   network_errors |-> sweepers[s].network_errors]
           r == SweepIncident(db, acc, Head(sweepers[s].queue), now, FALSE)
       IN  /\ db' = r.db
           /\ sweepers' = [sweepers EXCEPT ![s] =
                  AfterAccess([@ EXCEPT !.queue = Tail(@),
                                        !.results = r.acc.results,
                                        !.network_archived = r.acc.network_archived,
                                        !.network_errors = r.acc.network_errors])]
    /\ IF Returned(s)
       THEN report' = sweepers'[s].results /\ lastOp' = Op("sweep", 0, SystemUser, "ok")
       ELSE UNCHANGED <<report, lastOp>>
    /\ UNCHANGED <<now, editor, saved_searches, requests>>

\* edit_incident_view line 329: the request reads the instance.
EditLoad(user, i) ==
    /\ editor = Null
    /\ i \in Ids
    /\ is_admin(user) \/ db[i].created_by = Some(user)
    /\ editor' = Some([id |-> i, user |-> user, incident |-> db[i]])
    /\ UNCHANGED <<db, now, lastOp, report, sweepers, saved_searches, requests>>

\* edit_incident_view lines 386-394: the posted form is validated, its
\* fields assigned to the instance read earlier, and the instance saved.
EditSave(inc_t, rec, cause_raw, origin_raw) ==
    /\ editor # Null
    /\ is_valid(inc_t, rec, now)
    /\ LET e == Val(editor)
       IN  db' = [db EXCEPT ![e.id] =
                    save(ApplyForm(e.incident, e.user, inc_t, rec, cause_raw, origin_raw), now)]
    /\ editor' = Null
    /\ UNCHANGED <<now, lastOp, report, sweepers, saved_searches, requests>>

Next ==
    \/ Tick
    \/ \E user \in WebUsers, net \in AddNetworksFor(Len(db) + 1),
          inc_t \in IncidentTimeInputs,
          rec \in RecoveryInputs, cause_raw \in FormTexts, origin_raw \in FormTexts :
          AddIncident(user, net, inc_t, rec, cause_raw, origin_raw)
    \/ \E user \in WebUsers, i \in 1..MaxIncidents, inc_t \in IncidentTimeInputs,
          rec \in RecoveryInputs, cause_raw \in FormTexts, origin_raw \in FormTexts :
          EditIncident(user, i, inc_t, rec, cause_raw, origin_raw)
    \/ \E user \in WebUsers, i \in 1..MaxIncidents : ArchiveIncidentManual(user, i)
    \/ \E user \in WebUsers, i \in 1..MaxIncidents : RestoreArchivedIncident(user, i)
    \/ \E user \in WebUsers, net \in AddNetworks, ids \in BulkRequests :
          BulkArchiveIncidents(user, net, ids)
    \/ \E failIds \in SUBSET Ids : AutoArchiveEligibleIncidents(failIds)

Spec == Init /\ [][Next]_vars

NextConc ==
    \/ Tick
    \/ \E user \in WebUsers, net \in AddNetworksFor(Len(db) + 1),
          inc_t \in IncidentTimeInputs,
          rec \in RecoveryInputs, cause_raw \in FormTexts, origin_raw \in FormTexts :
          /\ Len(db) < MaxConcIncidents
          /\ AddIncident(user, net, inc_t, rec, cause_raw, origin_raw)
    \/ \E s \in SweeperIds : SweepBegin(s)
    \/ \E s \in SweeperIds : SweepQuery(s)
    \/ \E s \in SweeperIds : SweepStep(s)
    \/ \E user \in WebUsers, i \in 1..MaxIncidents : EditLoad(user, i)
    \/ \E inc_t \in IncidentTimeInputs, rec \in RecoveryInputs,
          cause_raw \in FormTexts, origin_raw \in FormTexts :
          EditSave(inc_t, rec, cause_raw, origin_raw)

SpecConc == Init /\ [][NextConc]_vars

(***************************************************************************)
(* can_be_archived as a function of the instance and the clock: the        *)
(* instance and the clock reading are drawn from bounded sets that include *)
(* null, empty and whitespace-only texts and the readings one second       *)
(* around the cooldown.                                                    *)
(***************************************************************************)
TextValues == {Null, Some(<<>>), Some(<<" ">>), Some(<<" ", "x", " ">>)}
EligibilityInstants == {7199, 7200, 7201}

SampleIncident(rec, cause, origin, archived, t) ==
    [save(NewIncident("transport", "admin", -1800, rec, cause, origin), 0)
        EXCEPT !.is_archived = archived,
               !.archived_at = IF archived THEN Some(t) ELSE Null,
               !.archived_by = IF archived THEN Some(SystemUser) ELSE Null]

InitEligibility ==
    /\ now \in EligibilityInstants
    /\ \E rec \in {Null, Some(0)}, cause \in TextValues, origin \in TextValues,
          archived \in BOOLEAN :
          db = <<SampleIncident(rec, cause, origin, archived, now)>>
    /\ lastOp = NoOp
    /\ report = EmptyReport
    /\ sweepers = [s \in SweeperIds |-> IdleSweeper]
    /\ editor = Null
    /\ saved_searches = <<>>
    /\ requests = [r \in RequestIds |-> IdleRequest]

CheckEligibility ==
    /\ lastOp' = Op("can_be_archived", 1, "",
                    IF can_be_archived(db[1], now) THEN "True" ELSE "False")
    /\ UNCHANGED <<db, now, report, sweepers, editor, saved_searches, requests>>

NextEligibility == CheckEligibility

SpecEligibility == InitEligibility /\ [][NextEligibility]_vars

(***************************************************************************)
(* Severity and status buckets of one stored incident as the clock         *)
(* advances: the incident time is 0, and the clock readings put its age    *)
(* one second before, at and one second after each threshold, before the   *)
(* incident time, and past one day.  The incident can be resolved and      *)
(* reopened through the edit form.                                         *)
(***************************************************************************)
SeverityInstants ==
    {-1, 0, 3599, 3600, 3601, 7199, 7200, 7201, 14399, 14400, 14401, 88200}

StatusChoices == {"active", "resolved", "new", "low", "medium", "critical"}

\* An instance that has not been given an incident time.
UnsavedIncident == [is_resolved |-> FALSE, date_time_recovery |-> Null]

InitSeverity ==
    /\ now = -1
    /\ db = <<save(NewIncident("transport", "admin", 0, Null, Null, Null), -1)>>
    /\ lastOp = Op("get_severity_class", 1, "", get_severity_class(db[1], now))
    /\ report = EmptyReport
    /\ sweepers = [s \in SweeperIds |-> IdleSweeper]
    /\ editor = Null
    /\ saved_searches = <<>>
    /\ requests = [r \in RequestIds |-> IdleRequest]

\* The incident list is rendered at a later clock reading.
SeverityAtLaterTime ==
    /\ \E t \in SeverityInstants : t > now /\ now' = t
    /\ lastOp' = Op("get_severity_class", 1, "", get_severity_class(db[1], now'))
    /\ UNCHANGED <<db, report, sweepers, editor, saved_searches, requests>>

\* A search with a status: whether the stored incident is returned.
StatusFilterRequest(status) ==
    /\ lastOp' = Op("status_filter", 1, "",
                    [status |-> status,
                     returned |-> _apply_status_filter(db[1], status, now)])
    /\ UNCHANGED <<db, now, report, sweepers, editor, saved_searches, requests>>

\* utils.get_incident_color_class
get_incident_color_class(inc, t) ==
    IF inc.date_time_recovery # Null THEN "incident-resolved"
    ELSE IF "date_time_incident" \in DOMAIN inc
    THEN LET duration == t - inc.date_time_incident
         IN  IF duration > 4 * SecondsPerHour THEN "incident-critical"
             ELSE IF duration > 2 * SecondsPerHour THEN "incident-major"
             ELSE IF duration > 1 * SecondsPerHour THEN "incident-minor"
             ELSE "incident-new"
    ELSE "incident-new"

\* The incident_severity_class template filter; without an incident time
\* the subtraction raises.
incident_severity_class(inc, t) ==
    IF inc.date_time_recovery # Null THEN "severity-green"
    ELSE IF "date_time_incident" \notin DOMAIN inc THEN "TypeError"
    ELSE LET duration == t - inc.date_time_incident
         IN  IF duration < 1 * SecondsPerHour THEN "severity-white"
             ELSE IF duration < 2 * SecondsPerHour THEN "severity-yellow"
             ELSE IF duration < 4 * SecondsPerHour THEN "severity-orange"
             ELSE "severity-red"

\* The stored incident is classified by the model method, by the utility
\* function and by the template filter at the same clock reading.
ClassifyIncident ==
    /\ lastOp' = Op("classify", 1, "",
                    [get_severity_class |-> get_severity_class(db[1], now),
                     get_incident_color_class |->
                         get_incident_color_class(db[1], now),
                     incident_severity_class |->
                         incident_severity_class(db[1], now)])
    /\ UNCHANGED <<db, now, report, sweepers, editor, saved_searches, requests>>

NextSeverity ==
    \/ SeverityAtLaterTime
    \/ ClassifyIncident
    \/ \E status \in StatusChoices : StatusFilterRequest(status)
    \/ \E rec \in {Null, Some(now)} :
          EditIncident("admin", 1, db[1].date_time_incident, rec, <<" ">>, <<" ">>)

SpecSeverity == InitSeverity /\ [][NextSeverity]_vars
(***************************************************************************)
(* Incidents created and edited with incident times on both sides of the   *)
(* clock: in the past, less than a minute ahead, more than a minute ahead, *)
(* and exactly and just over one hour ahead of the first clock reading.    *)
(***************************************************************************)
DurationIncidentTimes == {-1800, 30, 90, 3600, 3601}

NextDuration ==
    \/ Tick
    \/ \E inc_t \in DurationIncidentTimes, rec \in RecoveryInputs :
          AddIncident("admin", "transport", inc_t, rec, <<" ">>, <<" ">>)
    \/ \E i \in Ids, inc_t \in DurationIncidentTimes, rec \in RecoveryInputs :
          EditIncident("admin", i, inc_t, rec, <<" ">>, <<" ">>)

SpecDuration == Init /\ [][NextDuration]_vars
(***************************************************************************)
(* IncidentSearchService.search_incidents.  A request carries, for each    *)
(* of status, cause and sort_by, either no value (Null) or a value; the    *)
(* text, date and location filters act on columns and inputs this model    *)
(* does not carry.                                                         *)
(***************************************************************************)
\* BaseSearchForm.SORT_CHOICES
SortChoices ==
    {"-date_time_incident", "date_time_incident", "-date_time_recovery",
     "date_time_recovery", "created_by__username"}

DefaultSort == "-date_time_incident"

\* The column and direction order_by resolves a key to, or Null when the
\* key names no field (order_by raises FieldError).  Listed are the keys
\* that requests of this model carry.
ResolveOrder(key) ==
    CASE key = "-date_time_incident" ->
            Some([field |-> "date_time_incident", desc |-> TRUE])
      [] key = "date_time_incident" ->
            Some([field |-> "date_time_incident", desc |-> FALSE])
      [] key = "-date_time_recovery" ->
            Some([field |-> "date_time_recovery", desc |-> TRUE])
      [] key = "date_time_recovery" ->
            Some([field |-> "date_time_recovery", desc |-> FALSE])
      [] key = "created_by__username" ->
            Some([field |-> "created_by__username", desc |-> FALSE])
      [] key = "duration_minutes" ->
            Some([field |-> "duration_minutes", desc |-> FALSE])
      [] OTHER -> Null

\* The value a row is sorted by.  Where the database puts NULL is the
\* backend's choice (nullsSmallest).
SortValue(row, field, nullsSmallest) ==
    CASE field = "date_time_incident" -> row.date_time_incident
      [] field = "duration_minutes" -> row.duration_minutes
      [] field = "date_time_recovery" ->
            IF row.date_time_recovery # Null THEN Val(row.date_time_recovery)
            ELSE IF nullsSmallest THEN -1000000000 ELSE 1000000000
      [] field = "created_by__username" ->
            IF row.created_by = Some(SystemUser) THEN 2 ELSE 1

\* Row i comes before row j (rows of equal value: by id).
Precedes(d, i, j, order, nullsSmallest) ==
    LET vi == SortValue(d[i], order.field, nullsSmallest)
        vj == SortValue(d[j], order.field, nullsSmallest)
    IN  IF vi = vj THEN i < j
        ELSE IF order.desc THEN vi > vj ELSE vi < vj

RECURSIVE OrderedBy(_, _, _, _)
OrderedBy(d, S, order, nullsSmallest) ==
    IF S = {} THEN <<>>
    ELSE LET first == CHOOSE i \in S :
                          \A j \in S \ {i} : Precedes(d, i, j, order, nullsSmallest)
         IN  <<first>> \o OrderedBy(d, S \ {first}, order, nullsSmallest)

\* queryset.order_by(key)
order_by(d, S, key, nullsSmallest) ==
    IF ResolveOrder(key) = Null
    THEN [status |-> "FieldError", incidents |-> <<>>]
    ELSE [status |-> "ok",
          incidents |-> OrderedBy(d, S, Val(ResolveOrder(key)), nullsSmallest)]

\* search_form_data.get(name) is truthy, for a string and for a text.
Given(value) == value # Null /\ Val(value) # ""
GivenText(value) == value # Null /\ Val(value) # <<>>

search_incidents(d, net, data, t, nullsSmallest) ==
    LET all == {i \in 1..Len(d) : d[i].network = net}
        byStatus == IF Given(data.status)
                    THEN {i \in all : _apply_status_filter(d[i], Val(data.status), t)}
                    ELSE all
        byCause == IF GivenText(data.cause)
                   THEN {i \in byStatus : d[i].cause = data.cause}
                   ELSE byStatus
        sort_by == IF data.sort_by = Null THEN DefaultSort ELSE Val(data.sort_by)
    IN  order_by(d, byCause, sort_by, nullsSmallest)

\* model.objects.filter(is_archived=False) of the list and export views.
base_queryset(d, net) ==
    {i \in 1..Len(d) : d[i].network = net /\ ~d[i].is_archived}

\* BaseSearchForm.is_valid and cleaned_data: a ChoiceField accepts only its
\* choices or nothing, and a field that was not posted is cleaned to "".
SearchFormValid(get) ==
    /\ get.status = Null \/ Val(get.status) \in StatusChoices \cup {""}
    /\ get.sort_by = Null \/ Val(get.sort_by) \in SortChoices \cup {""}

cleaned_data(get) ==
    [status  |-> IF get.status = Null THEN Some("") ELSE get.status,
     cause   |-> IF get.cause = Null THEN Some(<<>>) ELSE get.cause,
     sort_by |-> IF get.sort_by = Null THEN Some("") ELSE get.sort_by]

\* What a list or export request can carry.
StatusInputs == {Null, Some(""), Some("active"), Some("critical"), Some("bogus")}
CauseInputs == {Null, Some(<<"x">>)}
SortInputs ==
    {Null, Some(""), Some("-date_time_incident"), Some("date_time_incident"),
     Some("-date_time_recovery"), Some("date_time_recovery"),
     Some("created_by__username"), Some("duration_minutes"), Some("bogus")}
SearchRequests ==
    [status : StatusInputs, cause : CauseInputs, sort_by : SortInputs]

\* The response of a list or export request, kept with the request.
SearchOp(op, user, get, searched, status, incidents) ==
    Op(op, 0, user,
       [status |-> status, incidents |-> incidents,
        request |-> get, searched |-> searched])

(***************************************************************************)
(* network_incidents_view: the page of incidents in the response.  An      *)
(* exception leaves through the outer except, which renders the page with  *)
(* no incidents and the error.                                             *)
(***************************************************************************)
network_incidents_view(d, t, user, net, get, nullsSmallest) ==
    LET form_data == cleaned_data(get)
        search_active == /\ SearchFormValid(get)
                         /\ \/ Given(form_data.status)
                            \/ GivenText(form_data.cause)
                            \/ Given(form_data.sort_by)
        found == search_incidents(d, net, form_data, t, nullsSmallest)
        listed == order_by(d, base_queryset(d, net), DefaultSort, nullsSmallest)
    IN  IF search_active
        THEN IF found.status = "ok"
             THEN SearchOp("network_incidents", user, get, TRUE, "200",
                           found.incidents)
             ELSE SearchOp("network_incidents", user, get, TRUE, "error", <<>>)
        ELSE SearchOp("network_incidents", user, get, FALSE, "200",
                      listed.incidents)

NetworkIncidentsView(user, net, get, nullsSmallest) ==
    /\ lastOp' = network_incidents_view(db, now, user, net, get, nullsSmallest)
    /\ UNCHANGED <<db, now, report, sweepers, editor, saved_searches, requests>>

(***************************************************************************)
(* export_incidents_view: the rows written to the file.  search_params is  *)
(* the posted JSON object; a key it lacks is Null, and an object with no   *)
(* key is falsy.                                                           *)
(***************************************************************************)
export_incidents_view(d, t, user, net, search_params, nullsSmallest) ==
    LET searched == \/ search_params.status # Null
                    \/ search_params.cause # Null
                    \/ search_params.sort_by # Null
        found == search_incidents(d, net, search_params, t, nullsSmallest)
        listed == order_by(d, base_queryset(d, net), DefaultSort, nullsSmallest)
    IN  IF searched
        THEN IF found.status = "ok"
             THEN SearchOp("export", user, search_params, TRUE, "200",
                           found.incidents)
             ELSE SearchOp("export", user, search_params, TRUE, "500", <<>>)
        ELSE SearchOp("export", user, search_params, FALSE, "200",
                      listed.incidents)

ExportIncidentsView(user, net, search_params, nullsSmallest) ==
    /\ lastOp' = export_incidents_view(db, now, user, net, search_params, nullsSmallest)
    /\ UNCHANGED <<db, now, report, sweepers, editor, saved_searches, requests>>

(***************************************************************************)
(* List and export requests over two stored transport incidents: active    *)
(* ones of different ages, a resolved one and an archived one.             *)
(***************************************************************************)
SearchSamples ==
    LET active(inc_t) ==
            save(NewIncident("transport", "admin", inc_t, Null, Null, Null), inc_t)
        resolved ==
            save(NewIncident("transport", "admin", -20000, Some(-12000),
                             Some(<<"x">>), Some(<<"x">>)), -12000)
    IN  {active(-20000), active(-1800), resolved,
         archive(resolved, resolved, SystemUser, -1000, FALSE).row}

InitSearch ==
    /\ now = 0
    /\ \E r1 \in SearchSamples, r2 \in SearchSamples : db = <<r1, r2>>
    /\ lastOp = NoOp
    /\ report = EmptyReport
    /\ sweepers = [s \in SweeperIds |-> IdleSweeper]
    /\ editor = Null
    /\ saved_searches = <<>>
    /\ requests = [r \in RequestIds |-> IdleRequest]

NextSearch ==
    \/ \E get \in SearchRequests, nullsSmallest \in BOOLEAN :
          NetworkIncidentsView("admin", "transport", get, nullsSmallest)
    \/ \E search_params \in SearchRequests, nullsSmallest \in BOOLEAN :
          ExportIncidentsView("admin", "transport", search_params, nullsSmallest)

SpecSearch == InitSearch /\ [][NextSearch]_vars
(***************************************************************************)
(* The dashboard's analytics (dashboard/views.py).  The incident tables    *)
(* of the five network types are the rows of db with that network.         *)
(***************************************************************************)
RECURSIVE SumDuration(_, _)
SumDuration(d, S) ==
    IF S = {} THEN 0
    ELSE LET i == CHOOSE x \in S : TRUE
         IN  d[i].duration_minutes + SumDuration(d, S \ {i})

\* The text calculate_average_resolution_time returns: "N/A", "<a>m",
\* "<a>h <b>m" or "<a>d <b>h".
Display(unit, a, b) == [unit |-> unit, a |-> a, b |-> b]

\* The average total / count as the text shows it; int() truncates toward
\* zero and % is the remainder of the floored division.
FormatAverage(total, count) ==
    IF total < 60 * count
    THEN Display("m", TruncDiv(total, count), 0)
    ELSE IF total < 1440 * count
    THEN Display("h m", total \div (60 * count),
                 (total % (60 * count)) \div count)
    ELSE Display("d h", total \div (1440 * count),
                 (total % (1440 * count)) \div (60 * count))

calculate_average_resolution_time(d, since_date) ==
    LET resolved_incidents ==
            {i \in 1..Len(d) : /\ d[i].date_time_recovery # Null
                               /\ Val(d[i].date_time_recovery) >= since_date}
        counted == {i \in resolved_incidents : d[i].duration_minutes # 0}
        total_resolved_incidents == Cardinality(counted)
        total_resolution_minutes == SumDuration(d, counted)
    IN  IF total_resolved_incidents > 0
        THEN FormatAverage(total_resolution_minutes, total_resolved_incidents)
        ELSE Display("N/A", 0, 0)

\* get_resolution_time_distribution: the buckets in minutes, in the order
\* of ordered_labels; the last one has no upper bound.
buckets ==
    << [min_val |-> 0,    max_val |-> Some(30)],
       [min_val |-> 30,   max_val |-> Some(60)],
       [min_val |-> 60,   max_val |-> Some(120)],
       [min_val |-> 120,  max_val |-> Some(240)],
       [min_val |-> 240,  max_val |-> Some(480)],
       [min_val |-> 480,  max_val |-> Some(1440)],
       [min_val |-> 1440, max_val |-> Some(4320)],
       [min_val |-> 4320, max_val |-> Null] >>

InBucket(k, duration) ==
    /\ buckets[k].min_val <= duration
    /\ buckets[k].max_val # Null => duration < Val(buckets[k].max_val)

\* The bucket the loop over buckets stops at (break); 0 when it finds none.
BucketOf(duration) ==
    IF \E k \in 1..Len(buckets) : InBucket(k, duration)
    THEN CHOOSE k \in 1..Len(buckets) :
            /\ InBucket(k, duration)
            /\ \A j \in 1..(k - 1) : ~InBucket(j, duration)
    ELSE 0

get_resolution_time_distribution(d) ==
    LET incidents == {i \in 1..Len(d) : d[i].date_time_recovery # Null}
    IN  [k \in 1..Len(buckets) |->
            Cardinality({i \in incidents : BucketOf(d[i].duration_minutes) = k})]

\* dashboard_view: the statistics of one network type.
NetworkStats(d, t, net) ==
    LET rows == {i \in 1..Len(d) : d[i].network = net}
        active_incidents_qs == {i \in rows : d[i].date_time_recovery = Null}
        CountClass(c) ==
            Cardinality({i \in active_incidents_qs : get_severity_class(d[i], t) = c})
    IN  [total  |-> Cardinality(rows),
         active |-> Cardinality(active_incidents_qs),
         severity_counts |->
            [new      |-> CountClass("incident-new"),
             low      |-> CountClass("incident-low"),
             medium   |-> CountClass("incident-medium"),
             critical |-> CountClass("incident-critical")]]

Clamp(h) == IF h < 0 THEN 0 ELSE IF h > 100 THEN 100 ELSE h

\* health score without the clamp to 0..100.
HealthScore_Unclamped(stats, roundsDown) ==
    IF stats.total = 0 THEN 100
    ELSE LET weighted == stats.severity_counts.new * 9
                         + stats.severity_counts.low * 7
                         + stats.severity_counts.medium * 4
                         + stats.severity_counts.critical * 1
             m   == IF stats.active > 1 THEN stats.active ELSE 1
             num == (2 * stats.total - stats.active) * weighted * 100
             den == 2 * stats.total * 10 * m
         IN  IF roundsDown /\ num = den * TruncDiv(num, den)
             THEN TruncDiv(num, den) - 1
             ELSE TruncDiv(num, den)

\* health score that rounds half up instead of truncating.
HealthScore_Rounds(stats, roundsDown) ==
    IF stats.total = 0 THEN 100
    ELSE LET weighted == stats.severity_counts.new * 9
                         + stats.severity_counts.low * 7
                         + stats.severity_counts.medium * 4
                         + stats.severity_counts.critical * 1
             m   == IF stats.active > 1 THEN stats.active ELSE 1
             num == (2 * stats.total - stats.active) * weighted * 100
             den == 2 * stats.total * 10 * m
         IN  Clamp(IF num < 0 THEN 0 ELSE (2 * num + den) \div (2 * den))

(***************************************************************************)
(* get_network_health_score, the body of its loop for one network.  The    *)
(* code multiplies binary floating-point numbers and truncates the         *)
(* product with int().  The weights are tenths here, so the exact product  *)
(* is num / den with                                                      *)
(*    num = (2*total - active) * (9*new + 7*low + 4*medium + critical)     *)
(*          * 100,    den = 2*total * 10 * max(active, 1).                 *)
(* 0.9, 0.7 and 0.1 have no exact binary representation: when the exact    *)
(* product is an integer n the floating-point product can fall just below  *)
(* it and int() then gives n - 1 (roundsDown); a product that is not an    *)
(* integer is too far from one for the rounding error to matter.           *)
(***************************************************************************)
HealthScore(stats, roundsDown) ==
    IF stats.total = 0 THEN 100
    ELSE LET weighted == stats.severity_counts.new * 9
                         + stats.severity_counts.low * 7
                         + stats.severity_counts.medium * 4
                         + stats.severity_counts.critical * 1
             m   == IF stats.active > 1 THEN stats.active ELSE 1
             num == (2 * stats.total - stats.active) * weighted * 100
             den == 2 * stats.total * 10 * m
             health_score ==
                 IF roundsDown /\ num = den * TruncDiv(num, den)
                 THEN TruncDiv(num, den) - 1
                 ELSE TruncDiv(num, den)
         IN  Clamp(health_score)

get_network_health_score(network_stats, roundedDown) ==
    [net \in DOMAIN network_stats |->
        HealthScore(network_stats[net], net \in roundedDown)]

(***************************************************************************)
(* dashboard_view, GET: the statistics cards and the chart data computed   *)
(* from the stored incidents at the current time.                          *)
(***************************************************************************)
WindowSeconds == 2592000

DashboardView(roundedDown) ==
    /\ LET network_stats == [net \in Networks |-> NetworkStats(db, now, net)]
           thirty_days_ago == now - WindowSeconds
       IN  lastOp' = Op("dashboard", 0, "admin",
               [network_stats |-> network_stats,
                avg_resolution_time |->
                    calculate_average_resolution_time(db, thirty_days_ago),
                resolution_distribution |-> get_resolution_time_distribution(db),
                health_scores |->
                    get_network_health_score(network_stats, roundedDown)])
    /\ UNCHANGED <<db, now, report, sweepers, editor, saved_searches, requests>>

(***************************************************************************)
(* The admin site's change form of an incident (admin.site.urls): a plain  *)
(* ModelForm of the model, without the checks of BaseIncidentForm; the     *)
(* instance is saved whole.  The two datetime fields are changed, the      *)
(* other fields are posted back as they were.                              *)
(***************************************************************************)
AdminChangeIncident(i, inc_t, rec) ==
    /\ i \in Ids
    /\ db' = [db EXCEPT ![i] =
                save([db[i] EXCEPT !.date_time_incident = inc_t,
                                   !.date_time_recovery = rec], now)]
    /\ lastOp' = NoOp
    /\ report' = EmptyReport
    /\ UNCHANGED <<now, sweepers, editor, saved_searches, requests>>

(***************************************************************************)
(* Incidents as the forms store them: open, resolved after 30 minutes,     *)
(* after 30 seconds, after 2 hours, and resolved exactly 30 days and 31    *)
(* days before the first clock reading; the admin site stores a recovery   *)
(* time 2 minutes before the incident time.                                *)
(***************************************************************************)
AnalyticsInputs ==
    { <<-1800, Null>>, <<-1800, Some(0)>>, <<90, Some(120)>>,
      <<-7200, Some(0)>>, <<-2592060, Some(-2592000)>>,
      <<-2678460, Some(-2678400)>> }

NextAnalytics ==
    \/ Tick
    \/ \E net \in AddNetworksFor(Len(db) + 1), p \in AnalyticsInputs :
          AddIncident("admin", net, p[1], p[2], <<" ">>, <<" ">>)
    \/ \E i \in Ids : AdminChangeIncident(i, 120, Some(0))
    \/ \E roundedDown \in SUBSET AddNetworks : DashboardView(roundedDown)

SpecAnalytics == Init /\ [][NextAnalytics]_vars

(***************************************************************************)
(* get_network_health_score applied to arbitrary statistics, the counts    *)
(* drawn independently of each other.                                      *)
(***************************************************************************)
MaxCount == 4
MaxSeverityCount == 2

StatsInputs ==
    [total : 0..MaxCount, active : 0..MaxCount,
     severity_counts : [new : 0..MaxSeverityCount, low : 0..MaxSeverityCount,
                        medium : 0..MaxSeverityCount,
                        critical : 0..MaxSeverityCount]]

\* The statistics get_network_health_score is called with.
InitHealth ==
    /\ db = <<>>
    /\ now = 0
    /\ lastOp \in {Op("network_stats", 0, "", [stats |-> stats]) :
                       stats \in StatsInputs}
    /\ report = EmptyReport
    /\ sweepers = [s \in SweeperIds |-> IdleSweeper]
    /\ editor = Null
    /\ saved_searches = <<>>
    /\ requests = [r \in RequestIds |-> IdleRequest]

GetNetworkHealthScore(roundsDown) ==
    /\ lastOp.op = "network_stats"
    /\ LET stats == lastOp.outcome.stats
       IN  lastOp' = Op("get_network_health_score", 0, "",
                        [stats |-> stats,
                         score |-> get_network_health_score(
                                       [net \in {"transport"} |-> stats],
                                       IF roundsDown THEN {"transport"} ELSE {}
                                   )["transport"]])
    /\ UNCHANGED <<db, now, report, sweepers, editor, saved_searches, requests>>

NextHealth == \E roundsDown \in BOOLEAN : GetNetworkHealthScore(roundsDown)

SpecHealth == InitHealth /\ [][NextHealth]_vars
(***************************************************************************)
(* The hourly sweep under fairness: the clock keeps advancing, here to a   *)
(* reading at which a recovery at 120 is exactly 2 hours old, and the beat *)
(* schedule keeps starting the task.  No write fails.  A run that finds    *)
(* nothing to archive can leave every variable as it is, so the fairness   *)
(* of the sweep is stated for the states in which it has work: it is not   *)
(* forever left out while an incident it would archive is waiting.         *)
(***************************************************************************)
LiveInstants == Instants \cup {7320}

TickLive ==
    /\ \E t \in LiveInstants : t > now /\ now' = t
    /\ lastOp' = NoOp
    /\ report' = EmptyReport
    /\ UNCHANGED <<db, sweepers, editor, saved_searches, requests>>

ScheduledSweep == AutoArchiveEligibleIncidents({})

\* The sweep would archive an incident if it ran now.
SweepHasWork ==
    \E i \in Ids : PreFilter(db[i]) /\ can_be_archived(db[i], now)

NextLive ==
    \/ TickLive
    \/ \E net \in AddNetworksFor(Len(db) + 1), rec \in RecoveryInputs,
          cause_raw \in FormTexts :
          AddIncident("admin", net, -1800, rec, cause_raw, <<" ", "x">>)
    \/ \E i \in 1..MaxIncidents, rec \in RecoveryInputs, cause_raw \in FormTexts :
          EditIncident("admin", i, -1800, rec, cause_raw, <<" ", "x">>)
    \/ \E i \in 1..MaxIncidents : RestoreArchivedIncident("admin", i)
    \/ ScheduledSweep

SpecLive ==
    /\ Init
    /\ [][NextLive]_vars
    /\ WF_vars(TickLive)
    /\ ([]<>(~SweepHasWork) \/ []<><<ScheduledSweep>>_vars)
(***************************************************************************)
(* Saved searches.  A row of SavedSearch has an owner, a name, a network   *)
(* type and the default flag (its parameter bag, description and usage     *)
(* counter play no part in these requests); its id is its index.  Every    *)
(* ORM call of save_search_view and set_default_search_view is one step:   *)
(* the views open no transaction and take no lock.                         *)
(***************************************************************************)
MaxSearches == 2
SearchNames == {"a", "b"}

SavedSearchRow(user, name, net, is_default) ==
    [user |-> user, name |-> name, network_type |-> net, is_default |-> is_default]

\* filter(user, network_type, is_default=True).exclude(id).update(is_default=False)
UnsetOtherDefaults(S, user, net, id) ==
    [i \in 1..Len(S) |->
        IF /\ S[i].user = user
           /\ S[i].network_type = net
           /\ S[i].is_default
           /\ i # id
        THEN [S[i] EXCEPT !.is_default = FALSE]
        ELSE S[i]]

\* filter(user, name, network_type).first(): the id found, or 0.
ExistingSearch(S, user, name, net) ==
    LET found == {i \in 1..Len(S) : /\ S[i].user = user
                                    /\ S[i].name = name
                                    /\ S[i].network_type = net}
    IN  IF found = {} THEN 0
        ELSE CHOOSE i \in found : \A j \in found : i <= j

\* Requests that have found no row of their name and will create one.
PendingCreates ==
    Cardinality({r \in RequestIds : /\ requests[r].pc = "save_write"
                                    /\ requests[r].saved_search = 0})

\* save_search_view lines 1101-1106: the lookup of an existing search.
SaveSearchLookup(r, net, name, set_as_default) ==
    /\ requests[r].pc = "idle"
    /\ LET existing == ExistingSearch(saved_searches, "admin", name, net)
       IN  /\ existing = 0 => Len(saved_searches) + PendingCreates < MaxSearches
           /\ requests' = [requests EXCEPT ![r] =
                  [pc |-> "save_write", network_type |-> net, name |-> name,
                   set_as_default |-> set_as_default, saved_search |-> existing]]
    /\ UNCHANGED <<db, now, lastOp, report, sweepers, editor, saved_searches>>

\* save_search_view lines 1108-1126: existing.save() or objects.create().  Whether
\* the table refuses a second row of the same owner, name and network type is
\* not known: where one exists by now, create() either inserts or raises, and
\* the view's except clause ends the request with status 500.
SaveSearchWrite(r, integrity_error) ==
    /\ requests[r].pc = "save_write"
    /\ LET q == requests[r]
           id == IF q.saved_search # 0 THEN q.saved_search
                 ELSE Len(saved_searches) + 1
           duplicate == /\ q.saved_search = 0
                        /\ ExistingSearch(saved_searches, "admin", q.name,
                                          q.network_type) # 0
       IN  /\ integrity_error => duplicate
           /\ saved_searches' =
                 IF integrity_error THEN saved_searches
                 ELSE IF q.saved_search # 0
                 THEN [saved_searches EXCEPT
                          ![id].is_default = q.set_as_default]
                 ELSE Append(saved_searches,
                             SavedSearchRow("admin", q.name, q.network_type,
                                            q.set_as_default))
           /\ requests' = [requests EXCEPT ![r] =
                  IF q.set_as_default /\ ~integrity_error
                  THEN [q EXCEPT !.pc = "save_unset", !.saved_search = id]
                  ELSE IdleRequest]
    /\ UNCHANGED <<db, now, lastOp, report, sweepers, editor>>

\* save_search_view lines 1128-1134: unset the other defaults.
SaveSearchUnset(r) ==
    /\ requests[r].pc = "save_unset"
    /\ saved_searches' = UnsetOtherDefaults(saved_searches, "admin",
                             requests[r].network_type, requests[r].saved_search)
    /\ requests' = [requests EXCEPT ![r] = IdleRequest]
    /\ UNCHANGED <<db, now, lastOp, report, sweepers, editor>>

\* set_default_search_view lines 1291-1295: get_object_or_404.
SetDefaultGet(r, id) ==
    /\ requests[r].pc = "idle"
    /\ id \in 1..Len(saved_searches)
    /\ saved_searches[id].user = "admin"
    /\ requests' = [requests EXCEPT ![r] =
           [IdleRequest EXCEPT !.pc = "default_unset",
                               !.network_type = saved_searches[id].network_type,
                               !.name = saved_searches[id].name,
                               !.saved_search = id]]
    /\ UNCHANGED <<db, now, lastOp, report, sweepers, editor, saved_searches>>

\* set_default_search_view lines 1297-1303: unset the other defaults.
SetDefaultUnset(r) ==
    /\ requests[r].pc = "default_unset"
    /\ saved_searches' = UnsetOtherDefaults(saved_searches, "admin",
                             requests[r].network_type, requests[r].saved_search)
    /\ requests' = [requests EXCEPT ![r].pc = "default_set"]
    /\ UNCHANGED <<db, now, lastOp, report, sweepers, editor>>

\* set_default_search_view lines 1305-1307: save(update_fields=['is_default']).
SetDefaultSave(r) ==
    /\ requests[r].pc = "default_set"
    /\ saved_searches' = [saved_searches EXCEPT
                             ![requests[r].saved_search].is_default = TRUE]
    /\ requests' = [requests EXCEPT ![r] = IdleRequest]
    /\ UNCHANGED <<db, now, lastOp, report, sweepers, editor>>

NextSaved ==
    \/ \E r \in RequestIds, net \in AddNetworks, name \in SearchNames,
          set_as_default \in BOOLEAN :
          SaveSearchLookup(r, net, name, set_as_default)
    \/ \E r \in RequestIds, integrity_error \in BOOLEAN :
          SaveSearchWrite(r, integrity_error)
    \/ \E r \in RequestIds : SaveSearchUnset(r)
    \/ \E r \in RequestIds, id \in 1..MaxSearches : SetDefaultGet(r, id)
    \/ \E r \in RequestIds : SetDefaultUnset(r)
    \/ \E r \in RequestIds : SetDefaultSave(r)

SpecSaved == Init /\ [][NextSaved]_vars
(***************************************************************************)
(* The archival criteria as the specification words them.                  *)
(***************************************************************************)
NonBlank(t) == t # Null /\ \E k \in 1..Len(Val(t)) : Val(t)[k] # " "

FiveConditions(inc, t) ==
    /\ inc.date_time_recovery # Null
    /\ NonBlank(inc.cause)
    /\ NonBlank(inc.origin)
    /\ inc.is_archived = FALSE
    /\ t - Val(inc.date_time_recovery) >= ArchiveCooldown

(***************************************************************************)
(* C1: no stored incident is archived while its recovery time is null.     *)
(* Stated as the claim states it; edit_incident_view accepts an archived   *)
(* incident and a blank recovery time.                                     *)
(***************************************************************************)
C1_ArchivedImpliesRecovered ==
    \A i \in Ids : db[i].is_archived => db[i].date_time_recovery # Null

(***************************************************************************)
(* C2: can_be_archived answers True exactly when the five conditions hold  *)
(* together: recovery time set, cause and origin non-blank after trimming, *)
(* not archived, and at least 2 hours since the recovery time (True at     *)
(* 2h00m00s, False at 1h59m59s).                                           *)
(***************************************************************************)
C2_CanBeArchivedIffFive ==
    lastOp.op = "can_be_archived" =>
        /\ (lastOp.outcome = "True") <=> FiveConditions(db[1], now)
        /\ (db[1].date_time_recovery # Null /\ now - Val(db[1].date_time_recovery) = 7199)
              => lastOp.outcome = "False"

C2_Witness ==
    /\ lastOp.op = "can_be_archived"
    /\ lastOp.outcome = "True"
    /\ now - Val(db[1].date_time_recovery) = 7200

(***************************************************************************)
(* C3: a sweep without storage errors archives exactly the eligible        *)
(* incidents: whatever it archives met the five conditions, nothing it     *)
(* leaves unarchived still meets them, and the pre-filter excludes no      *)
(* incident that meets them.                                               *)
(***************************************************************************)
C3_SweepArchivesExactlyEligible ==
    [][(lastOp'.op = "sweep" /\ lastOp'.outcome = "ok") =>
          \A i \in Ids :
              /\ (~db[i].is_archived /\ db'[i].is_archived) => FiveConditions(db[i], now)
              /\ ~db'[i].is_archived => ~FiveConditions(db'[i], now)
              /\ FiveConditions(db[i], now) => PreFilter(db[i])]_vars

\* A sweep has archived the incident resolved 121 minutes earlier and left
\* the one resolved 119 minutes earlier.
C3_Witness ==
    /\ lastOp.op = "sweep"
    /\ lastOp.outcome = "ok"
    /\ \E i \in Ids, j \in Ids :
          /\ db[i].is_archived
          /\ db[i].archived_at = Some(now)
          /\ db[i].archived_by = Some(SystemUser)
          /\ db[i].date_time_recovery = Some(now - 7260)
          /\ ~db[j].is_archived
          /\ db[j].date_time_recovery = Some(now - 7140)
          /\ NonBlank(db[j].cause)
          /\ NonBlank(db[j].origin)

C5_EachArchivedOnce ==
    [][\A s \in SweeperIds :
          sweepers'[s].results.total_archived > sweepers[s].results.total_archived =>
              \E i \in Ids : ~db[i].is_archived /\ db'[i].is_archived]_vars

(***************************************************************************)
(* C6: with a sweep interleaved with an edit of the same incident, a row   *)
(* that becomes archived has its stored recovery time set and its stored   *)
(* cause and origin non-blank, and an archival once written stays in the   *)
(* store.                                                                  *)
(***************************************************************************)
C6_SweepSafeWithEdit ==
    [][\A i \in Ids :
          /\ (~db[i].is_archived /\ db'[i].is_archived) =>
                /\ db'[i].date_time_recovery # Null
                /\ NonBlank(db'[i].cause)
                /\ NonBlank(db'[i].origin)
          /\ db[i].is_archived => db'[i].is_archived]_vars

(***************************************************************************)
(* C7: in every stored row is_resolved equals (recovery time is not null). *)
(***************************************************************************)
C7_ResolvedIffRecovered ==
    \A i \in Ids : db[i].is_resolved = (db[i].date_time_recovery # Null)

\* A resolved incident has just been restored while another incident is
\* unresolved.
C7_Witness ==
    /\ lastOp.op = "restore"
    /\ lastOp.outcome = "True"
    /\ db[lastOp.id].is_resolved
    /\ \E j \in Ids : ~db[j].is_resolved

(***************************************************************************)
(* C8: archived_at and archived_by are non-null exactly when is_archived   *)
(* is true.                                                                *)
(***************************************************************************)
C8_ArchiveFieldsTogether ==
    \A i \in Ids :
        /\ (db[i].archived_at # Null) = db[i].is_archived
        /\ (db[i].archived_by # Null) = db[i].is_archived

\* One incident has just been restored while another stands archived.
C8_Witness ==
    /\ lastOp.op = "restore"
    /\ lastOp.outcome = "True"
    /\ ~db[lastOp.id].is_archived
    /\ \E j \in Ids : db[j].is_archived

(***************************************************************************)
(* C9: a successful archive changes exactly four fields of the row         *)
(* (is_archived, archived_at = now, archived_by = actor, updated_by =      *)
(* actor) and nothing else.  Stated as the claim states it.                *)
(***************************************************************************)
ArchiveStamps(i) ==
    /\ db'[i].archived_at = Some(now)
    /\ db'[i].archived_by = Some(lastOp'.actor)
    /\ db'[i].updated_by = Some(lastOp'.actor)

C9_ArchiveChangesExactlyFour ==
    [][\A i \in Ids :
          (~db[i].is_archived /\ db'[i].is_archived) =>
              /\ ArchiveStamps(i)
              /\ \A f \in DOMAIN db[i] \
                          {"is_archived", "archived_at", "archived_by", "updated_by"} :
                     db'[i][f] = db[i][f]]_vars

(***************************************************************************)
(* C9 as amended: a successful archive changes those four fields and the   *)
(* auto-managed updated_at, which becomes now; every other field of the    *)
(* row, duration_minutes included, is unchanged.                           *)
(***************************************************************************)
C9_ArchiveChangesFourAndUpdatedAt ==
    [][\A i \in Ids :
          (~db[i].is_archived /\ db'[i].is_archived) =>
              /\ ArchiveStamps(i)
              /\ db'[i].updated_at = now
              /\ \A f \in DOMAIN db[i] \ LifecycleColumns : db'[i][f] = db[i][f]]_vars

\* The system user has just archived an incident last saved by the admin
\* at an earlier clock reading.
C9_Witness ==
    /\ lastOp.op = "sweep"
    /\ report.total_archived > 0
    /\ \E i \in Ids :
          /\ db[i].is_archived
          /\ db[i].archived_at = Some(now)
          /\ db[i].updated_by = Some(SystemUser)
          /\ db[i].created_by = Some("admin")

C11_ArchiveRestoreRoundTrip ==
    [][/\ \A i \in Ids, u \in WebUsers \cup {SystemUser}, v \in WebUsers :
             can_be_archived(db[i], now) =>
                 LET a == archive(db[i], db[i], u, now, FALSE)
                     r == restore(a.row, a.row, v, now)
                 IN  /\ a.outcome = "True"
                     /\ r.outcome = "True"
                     /\ r.row = [db[i] EXCEPT !.updated_by = Some(v),
                                              !.updated_at = now]
                     /\ archive(r.row, r.row, u, now, FALSE).outcome = "True"
       /\ (/\ lastOp.op = "archive"
           /\ lastOp.outcome = "True"
           /\ lastOp'.op = "restore"
           /\ lastOp'.id = lastOp.id) =>
             /\ lastOp'.outcome = "True"
             /\ db'[lastOp.id] = [db[lastOp.id] EXCEPT
                                     !.is_archived = FALSE,
                                     !.archived_at = Null,
                                     !.archived_by = Null,
                                     !.updated_by = Some(lastOp'.actor),
                                     !.updated_at = now]
             /\ can_be_archived(db'[lastOp.id], now)]_vars

\* An incident has just been restored and can be archived again at once.
C11_Witness ==
    /\ lastOp.op = "restore"
    /\ lastOp.outcome = "True"
    /\ db[lastOp.id].archived_at = Null
    /\ db[lastOp.id].archived_by = Null
    /\ can_be_archived(db[lastOp.id], now)

(***************************************************************************)
(* C12: a sweep in which the archival of some incidents fails still        *)
(* checks every candidate of every network type, archives every eligible   *)
(* incident whose own archival did not fail, and returns its summary with  *)
(* an entry for each network type.                                         *)
(***************************************************************************)
FailedIds(rep) ==
    UNION {{rep.by_network_type[k].errors[j].id :
                j \in 1..Len(rep.by_network_type[k].errors)} :
            k \in 1..Len(rep.by_network_type)}

C12_SweepContinuesOnFailure ==
    [][lastOp'.op = "sweep" =>
          /\ Len(report'.by_network_type) = Len(NetworkOrder)
          /\ \A k \in 1..Len(NetworkOrder) :
                /\ report'.by_network_type[k].network = NetworkOrder[k]
                /\ report'.by_network_type[k].checked =
                      Cardinality({i \in Ids : /\ db[i].network = NetworkOrder[k]
                                               /\ PreFilter(db[i])})
          /\ report'.total_checked = Cardinality({i \in Ids : PreFilter(db[i])})
          /\ \A i \in Ids :
                (can_be_archived(db[i], now) /\ i \notin FailedIds(report')) =>
                    db'[i].is_archived]_vars

\* A sweep failed to archive one incident and archived one that comes
\* after it in the loop.
C12_Witness ==
    /\ lastOp.op = "sweep"
    /\ lastOp.outcome = "storage errors"
    /\ report.total_archived = 1
    /\ \E i \in Ids, j \in Ids :
          /\ i < j
          /\ i \in FailedIds(report)
          /\ ~db[i].is_archived
          /\ db[j].is_archived
          /\ db[j].archived_at = Some(now)
          /\ db[j].archived_by = Some(SystemUser)

C14_SeverityThresholds ==
    /\ get_severity_class(UnsavedIncident, now) = "incident-new"
    /\ get_severity_display(UnsavedIncident, now) = "New"
    /\ (lastOp.op = "get_severity_class" /\ db[1].date_time_recovery = Null) =>
          LET e == now - db[1].date_time_incident
              label == get_severity_display(db[1], now)
          IN  /\ e < 3600 => (lastOp.outcome = "incident-new" /\ label = "New")
              /\ (3600 <= e /\ e < 7200) =>
                    (lastOp.outcome = "incident-low" /\ label = "Low Severity")
              /\ (7200 <= e /\ e < 14400) =>
                    (lastOp.outcome = "incident-medium" /\ label = "Medium Severity")
              /\ e >= 14400 =>
                    (lastOp.outcome = "incident-critical" /\ label = "Critical")

\* The severity of an unresolved incident has been computed at exactly one
\* hour of elapsed time.
C14_Witness ==
    /\ lastOp.op = "get_severity_class"
    /\ lastOp.outcome = "incident-low"
    /\ db[1].date_time_recovery = Null
    /\ now - db[1].date_time_incident = 3600

(***************************************************************************)
(* C15: an incident whose recovery time is set and saved has severity      *)
(* Resolved, whatever its elapsed time before resolution, now and at every *)
(* later clock reading.                                                    *)
(***************************************************************************)
C15_ResolvedStaysResolved ==
    /\ \A i \in Ids :
          db[i].date_time_recovery # Null =>
              \A t \in {x \in SeverityInstants : x >= now} :
                  /\ get_severity_class(db[i], t) = "incident-resolved"
                  /\ get_severity_display(db[i], t) = "Resolved"
    /\ (lastOp.op = "get_severity_class" /\ db[1].date_time_recovery # Null) =>
          lastOp.outcome = "incident-resolved"

\* An incident resolved after more than four hours has had its severity
\* computed at a later clock reading.
C15_Witness ==
    /\ lastOp.op = "get_severity_class"
    /\ lastOp.outcome = "incident-resolved"
    /\ db[1].date_time_recovery # Null
    /\ Val(db[1].date_time_recovery) - db[1].date_time_incident > 14400
    /\ now > Val(db[1].date_time_recovery)

(***************************************************************************)
(* C16: while an incident stays unresolved its severity is one of New,     *)
(* Low, Medium, Critical, and at a later clock reading it is at least what *)
(* it was at the earlier one, along New < Low < Medium < Critical.         *)
(***************************************************************************)
SeverityRank(c) ==
    CASE c = "incident-new" -> 1
      [] c = "incident-low" -> 2
      [] c = "incident-medium" -> 3
      [] c = "incident-critical" -> 4
      [] OTHER -> 0

C16_SeverityNeverRegresses ==
    [][(/\ lastOp.op = "get_severity_class"
        /\ lastOp'.op = "get_severity_class"
        /\ db[1].date_time_recovery = Null
        /\ db'[1].date_time_recovery = Null) =>
          /\ SeverityRank(lastOp.outcome) >= 1
          /\ SeverityRank(lastOp'.outcome) >= SeverityRank(lastOp.outcome)]_vars

\* An unresolved incident has been classified Critical more than a day
\* after its incident time.
C16_Witness ==
    /\ lastOp.op = "get_severity_class"
    /\ lastOp.outcome = "incident-critical"
    /\ db[1].date_time_recovery = Null
    /\ now - db[1].date_time_incident > 86400

(***************************************************************************)
(* C17: an unarchived incident is returned by the status bucket new, low,  *)
(* medium or critical exactly when its severity class is the class of that *)
(* bucket.  Stated as the claim states it; the filters compare with        *)
(* inclusive bounds on both sides.                                         *)
(***************************************************************************)
BucketClass(status) ==
    CASE status = "new" -> "incident-new"
      [] status = "low" -> "incident-low"
      [] status = "medium" -> "incident-medium"
      [] status = "critical" -> "incident-critical"
      [] OTHER -> ""

C17_BucketsAgreeWithSeverity ==
    (/\ lastOp.op = "status_filter"
     /\ lastOp.outcome.status \in {"new", "low", "medium", "critical"}
     /\ ~db[1].is_archived) =>
        (lastOp.outcome.returned <=>
            get_severity_class(db[1], now) = BucketClass(lastOp.outcome.status))
(***************************************************************************)
(* C18: every stored incident has duration_minutes >= 0.  Stated as the    *)
(* claim states it; an accepted incident time can lie ahead of the clock.  *)
(***************************************************************************)
C18_DurationNonNegative ==
    \A i \in Ids : db[i].duration_minutes >= 0
(***************************************************************************)
(* C19: the incident list and its export contain no archived incident,     *)
(* with or without search filters.  Stated as the claim states it; a       *)
(* request with filters is answered from search_incidents, which starts    *)
(* from all rows of the model.                                             *)
(***************************************************************************)
C19_ArchivedExcluded ==
    lastOp.op \in {"network_incidents", "export"} =>
        \A k \in 1..Len(lastOp.outcome.incidents) :
            ~db[lastOp.outcome.incidents[k]].is_archived

(***************************************************************************)
(* C20: a list or export request whose sort key is missing, empty or not   *)
(* one of the whitelisted keys is answered without error, with the         *)
(* incidents the same request returns under the default key, in incident   *)
(* time descending.  Stated as the claim states it.                        *)
(***************************************************************************)
C20_UnknownSortFallsBack ==
    (/\ lastOp.op \in {"network_incidents", "export"}
     /\ \/ lastOp.outcome.request.sort_by = Null
        \/ Val(lastOp.outcome.request.sort_by) \notin SortChoices) =>
        LET got == lastOp.outcome.incidents
            withDefault == [lastOp.outcome.request EXCEPT !.sort_by = Some(DefaultSort)]
            expected ==
                IF lastOp.op = "export"
                THEN export_incidents_view(db, now, lastOp.actor, "transport",
                                           withDefault, TRUE).outcome.incidents
                ELSE network_incidents_view(db, now, lastOp.actor, "transport",
                                            withDefault, TRUE).outcome.incidents
        IN  /\ lastOp.outcome.status = "200"
            /\ {got[k] : k \in 1..Len(got)} = {expected[k] : k \in 1..Len(expected)}
            /\ \A k \in 1..Len(got), l \in 1..Len(got) :
                  k < l => db[got[k]].date_time_incident >= db[got[l]].date_time_incident


(***************************************************************************)
(* C21: the mean time to resolution the dashboard shows is taken over all  *)
(* resolved incidents whose recovery time is at or after the window start: *)
(* it is "N/A" if and only if there is no such incident, and otherwise it  *)
(* is the sum of their duration_minutes divided by their number, an        *)
(* incident with duration_minutes = 0 counted like any other.  Stated as   *)
(* the claim states it; the code skips incidents whose duration is 0.      *)
(***************************************************************************)
C21_MeanOverAllResolved ==
    lastOp.op = "dashboard" =>
        LET since == now - WindowSeconds
            resolved == {i \in Ids : /\ db[i].date_time_recovery # Null
                                     /\ Val(db[i].date_time_recovery) >= since}
            shown == lastOp.outcome.avg_resolution_time
        IN  /\ (shown.unit = "N/A") <=> (resolved = {})
            /\ resolved # {} =>
                  shown = FormatAverage(SumDuration(db, resolved),
                                        Cardinality(resolved))

RECURSIVE SumCounts(_)
SumCounts(counts) ==
    IF counts = <<>> THEN 0 ELSE Head(counts) + SumCounts(Tail(counts))

(***************************************************************************)
(* C22: in the resolution-time histogram the dashboard shows, the eight    *)
(* bucket counts sum to the number of resolved incidents (every stored     *)
(* incident has a duration), each one counted in exactly one bucket.       *)
(* Stated as the claim states it; a negative stored duration is in no      *)
(* bucket.                                                                 *)
(***************************************************************************)
C22_BucketsCoverAllResolved ==
    lastOp.op = "dashboard" =>
        SumCounts([k \in 1..Len(buckets) |->
                      lastOp.outcome.resolution_distribution[k]])
            = Cardinality({i \in Ids : db[i].date_time_recovery # Null})

\* The exact value of (1 - 0.5*active/total) * weighted score * 100 as the
\* fraction ExactNum / ExactDen, for total > 0.
ExactNum(stats) ==
    (2 * stats.total - stats.active) * 100
        * (9 * stats.severity_counts.new + 7 * stats.severity_counts.low
           + 4 * stats.severity_counts.medium + stats.severity_counts.critical)

ExactDen(stats) ==
    20 * stats.total * (IF stats.active > 1 THEN stats.active ELSE 1)

(***************************************************************************)
(* C23 as the claim states it: for total > 0 the health score is the       *)
(* product rounded to the nearest integer (a tie either way) and clamped   *)
(* to 0..100, and it is 100 for total = 0.  A product that is exactly an   *)
(* integer is left out, so that a violation does not rest on the           *)
(* floating-point error.  The code truncates.                              *)
(***************************************************************************)
C23_HealthScoreRounds ==
    lastOp.op = "get_network_health_score" =>
        LET stats == lastOp.outcome.stats
            num == ExactNum(stats)
            den == ExactDen(stats)
        IN  IF stats.total = 0 THEN lastOp.outcome.score = 100
            ELSE \/ num = den * TruncDiv(num, den)
                 \/ lastOp.outcome.score \in
                       { Clamp((2 * num + den) \div (2 * den)),
                         Clamp(-((den - 2 * num) \div (2 * den))) }

(***************************************************************************)
(* C23, amended: for total > 0 the health score is the product truncated   *)
(* toward zero to an integer, not rounded, then clamped to 0..100; the     *)
(* product is computed in binary floating point, so a product that is      *)
(* exactly an integer n truncates to n or to n - 1.  It is 100 for         *)
(* total = 0.                                                              *)
(***************************************************************************)
C23_HealthScoreTruncates ==
    lastOp.op = "get_network_health_score" =>
        LET stats == lastOp.outcome.stats
            num == ExactNum(stats)
            den == ExactDen(stats)
            truncated == TruncDiv(num, den)
        IN  IF stats.total = 0 THEN lastOp.outcome.score = 100
            ELSE \/ lastOp.outcome.score = Clamp(truncated)
                 \/ /\ truncated * den = num
                    /\ lastOp.outcome.score = Clamp(truncated - 1)

\* total 4, active 1, one new incident: the product is 78.75, shown as 78.
C23_Witness ==
    /\ lastOp.op = "get_network_health_score"
    /\ lastOp.outcome.stats =
          [total |-> 4, active |-> 1,
           severity_counts |-> [new |-> 1, low |-> 0, medium |-> 0, critical |-> 0]]
    /\ lastOp.outcome.score = 78

(***************************************************************************)
(* C24: the health score is an integer in 0..100 for every combination of  *)
(* total, active and severity counts, also when active exceeds total or    *)
(* the severity counts sum to more than active.                            *)
(***************************************************************************)
C24_HealthScoreInRange ==
    lastOp.op = "get_network_health_score" => lastOp.outcome.score \in 0..100

\* active above twice the total makes the product negative; severity
\* counts summing to more than active make it exceed 100.
C24_Witness ==
    /\ lastOp.op = "get_network_health_score"
    /\ \/ /\ lastOp.outcome.stats.active > 2 * lastOp.outcome.stats.total
          /\ lastOp.outcome.stats.total > 0
          /\ ExactNum(lastOp.outcome.stats) < 0
          /\ lastOp.outcome.score = 0
       \/ /\ ExactNum(lastOp.outcome.stats) > 100 * ExactDen(lastOp.outcome.stats)
          /\ lastOp.outcome.stats.total > 0
          /\ lastOp.outcome.score = 100

\* The tier a class name of any of the three classifiers stands for.
Tier(c) ==
    CASE c \in {"incident-new", "severity-white"} -> "new"
      [] c \in {"incident-low", "incident-minor", "severity-yellow"} -> "low"
      [] c \in {"incident-medium", "incident-major", "severity-orange"} -> "medium"
      [] c \in {"incident-critical", "severity-red"} -> "critical"
      [] c \in {"incident-resolved", "severity-green"} -> "resolved"
      [] OTHER -> "none"

(***************************************************************************)
(* C27: BaseIncident.get_severity_class, utils.get_incident_color_class    *)
(* and the incident_severity_class template filter give the same tier for  *)
(* every incident at every current time, also at exactly 1h, 2h and 4h of  *)
(* elapsed time.  Stated as the claim states it; get_incident_color_class  *)
(* compares with > where the other two compare with <.                     *)
(***************************************************************************)
C27_ClassifiersAgree ==
    lastOp.op = "classify" =>
        /\ Tier(lastOp.outcome.get_severity_class)
              = Tier(lastOp.outcome.get_incident_color_class)
        /\ Tier(lastOp.outcome.get_severity_class)
              = Tier(lastOp.outcome.incident_severity_class)

\* Resolved, cause and origin filled in, not archived.
AwaitingArchival(i) ==
    /\ i \in Ids
    /\ db[i].date_time_recovery # Null
    /\ NonBlank(db[i].cause)
    /\ NonBlank(db[i].origin)
    /\ ~db[i].is_archived

(***************************************************************************)
(* C25: with the sweep run again and again and no storage errors, an       *)
(* incident that is resolved, has a non-blank cause and origin and is not  *)
(* archived is eventually archived, unless an edit takes it out of that    *)
(* condition; and every sweep that runs 2 hours or more after its recovery *)
(* time archives it.                                                       *)
(***************************************************************************)
C25_EligibleEventuallyArchived ==
    /\ \A i \in 1..MaxIncidents :
          AwaitingArchival(i) ~>
              ((i \in Ids /\ db[i].is_archived) \/ ~AwaitingArchival(i))
    /\ [][lastOp'.op = "sweep" =>
             \A i \in Ids :
                 (AwaitingArchival(i)
                    /\ now - Val(db[i].date_time_recovery) >= ArchiveCooldown)
                 => (/\ db'[i].is_archived
                     /\ db'[i].archived_at = Some(now)
                     /\ db'[i].archived_by = Some(SystemUser))]_vars

\* A sweep has archived an incident at exactly 2 hours after its recovery.
C25_Witness ==
    /\ lastOp.op = "sweep"
    /\ \E i \in Ids :
          /\ db[i].is_archived
          /\ db[i].archived_at = Some(now)
          /\ db[i].archived_by = Some(SystemUser)
          /\ db[i].date_time_recovery = Some(now - 7200)

(***************************************************************************)
(* C26: restore does not restart the cooldown: immediately after an        *)
(* archived incident is restored can_be_archived is true for it again, and *)
(* a sweep that directly follows the restore archives it again.  Stated as *)
(* the claim states it; an incident edited while it was archived can have  *)
(* lost its recovery time, cause or origin.                                *)
(***************************************************************************)
C26_RestoredIsEligible ==
    [][/\ (lastOp'.op = "restore" /\ lastOp'.outcome = "True") =>
             can_be_archived(db'[lastOp'.id], now)
       /\ (/\ lastOp.op = "restore"
           /\ lastOp.outcome = "True"
           /\ lastOp'.op = "sweep"
           /\ lastOp'.outcome = "ok") => db'[lastOp.id].is_archived]_vars

(***************************************************************************)
(* C28: the summary of a sweep lists every per-incident failure in its     *)
(* top-level errors: each incident the sweep tried to archive without      *)
(* success is named there, so total_archived plus the number of top-level  *)
(* messages equals the number of candidates for which can_be_archived was  *)
(* true.  Stated as the claim states it; a failure reported by archive     *)
(* returning False is added to the errors of the network type only.        *)
(***************************************************************************)
C28_ReportListsEveryFailure ==
    [][lastOp'.op = "sweep" =>
          /\ \A i \in Ids :
                (can_be_archived(db[i], now) /\ ~db'[i].is_archived) =>
                    \E j \in 1..Len(report'.errors) : report'.errors[j].id = i
          /\ report'.total_archived + Len(report'.errors)
                = Cardinality({i \in Ids : can_be_archived(db[i], now)})]_vars

(***************************************************************************)
(* C29: bulk archive handles each requested id on its own: the request is  *)
(* answered with archived_count and failed_incidents, an incident that     *)
(* does not meet the archival criteria does not stop the ids after it, and *)
(* every requested id is either archived or listed in failed_incidents,    *)
(* archived_count + |failed_incidents| = total_requested.  Stated as the   *)
(* claim states it; the ValueError of archive ends the loop.               *)
(***************************************************************************)
C29_BulkHandlesEachId ==
    [][\A net \in AddNetworks, ids \in BulkRequests :
          BulkArchiveIncidents("admin", net, ids) =>
              /\ lastOp'.outcome = "200"
              /\ lastOp'.archived_count + Len(lastOp'.failed_incidents) = Len(ids)
              /\ \A k \in 1..Len(ids) :
                    \/ (ids[k] \in Ids /\ db'[ids[k]].is_archived)
                    \/ \E j \in 1..Len(lastOp'.failed_incidents) :
                          lastOp'.failed_incidents[j] = ids[k]]_vars

(***************************************************************************)
(* C30: once no save-search or set-default request of the user is in       *)
(* progress, at most one of the user's saved searches of each network type *)
(* has is_default true, whatever the sequence and interleaving of the      *)
(* requests.  Stated as the claim states it; two requests that each unset  *)
(* the other defaults before either sets its own leave two defaults.       *)
(***************************************************************************)
C30_AtMostOneDefault ==
    (\A r \in RequestIds : requests[r].pc = "idle") =>
        \A net \in Networks :
            Cardinality({i \in 1..Len(saved_searches) :
                            /\ saved_searches[i].user = "admin"
                            /\ saved_searches[i].network_type = net
                            /\ saved_searches[i].is_default}) <= 1
====
